---- MODULE Spec2Model ----
(***************************************************************************)
(* Model of convert_to_webp.py: the command-line batch converter that      *)
(* re-encodes every image of a folder to WebP.                              *)
(*                                                                         *)
(* The state is the command line (sys.argv[1:]), the filesystem, the local  *)
(* variables of main() and convert_to_webp(), the lines printed so far     *)
(* (log, summary, msg) and the exit status.  Once the process has exited,  *)
(* the program may be started a second time on the same command line and   *)
(* filesystem.  Paths and file names are those of a POSIX system: pathlib  *)
(* compares and globs them case-sensitively.                               *)
(***************************************************************************)
EXTENDS Integers, Sequences, FiniteSets

\* ---------------------------------------------------------------- bounds
MaxFiles == 3      \* files in the input directory before the first run

\* ------------------------------------------------------------ file names
\* A file name is <<stem, extension>>.
InitNames ==
    { <<"a", "jpg">>, <<"a", "png">>, <<"a", "Jpg">>,
      <<"b", "JPG">>, <<"a", "webp">>, <<"b", "txt">> }

\* The extensions that occur, lower-case and upper-case.
CaseTable ==
    { <<"jpg", "JPG">>, <<"jpeg", "JPEG">>, <<"png", "PNG">>, <<"bmp", "BMP">>,
      <<"gif", "GIF">>, <<"tiff", "TIFF">>, <<"tif", "TIF">>, <<"webp", "WEBP">>,
      <<"txt", "TXT">> }

\* Mixed-case spellings: <<spelling, lower-case, upper-case>>.
MixedCase == { <<"Jpg", "jpg", "JPG">> }

\* <<spelling, spelling.lower(), spelling.upper()>>
CaseOf ==
    { <<p[1], p[1], p[2]>> : p \in CaseTable } \cup
    { <<p[2], p[1], p[2]>> : p \in CaseTable } \cup MixedCase

\* str.upper()
Upper(e) == (CHOOSE t \in CaseOf : t[1] = e)[3]

SUPPORTED_FORMATS == {"jpg", "jpeg", "png", "bmp", "gif", "tiff", "tif", "webp"}

\* image_file.with_suffix('.webp').name
WebpName(f) == <<f[1], "webp">>

AllNames == InitNames \cup { WebpName(f) : f \in InitNames }

\* ------------------------------------------------------------ filesystem
\* Folder arguments and what they resolve to.  "in" and "alias" are two
\* spellings of one existing directory, "new" is a directory that does not
\* exist yet, "missing" resolves to nothing, "file" is a regular file.
InputSpellings == {"in", "missing", "file"}
OutputSpellings == {"in", "alias", "new"}
Locations == {"L1", "L2"}

Loc(sp) == IF sp \in {"in", "alias"} THEN "L1" ELSE "L2"

Absent == <<"absent">>
Orig == <<"orig">>
Partial == <<"partial">>
Encoded(f, q) == <<"webp", f, q>>


\* ------------------------------------------------------------ arguments
\* The optional arguments that occur, as the characters they are made of.
Chars(s) ==
    CASE s = "0" -> <<"0">>
      [] s = "90" -> <<"9", "0">>
      [] s = "101" -> <<"1", "0", "1">>
      [] s = "-5" -> <<"-", "5">>
      [] OTHER -> <<"-", "-", "o", "v", "e", "r", "w", "r", "i", "t", "e">>

DigitValue ==
    { <<"0", 0>>, <<"1", 1>>, <<"2", 2>>, <<"3", 3>>, <<"4", 4>>,
      <<"5", 5>>, <<"6", 6>>, <<"7", 7>>, <<"8", 8>>, <<"9", 9>> }

\* str.isdigit()
IsDigit(s) ==
    /\ Len(Chars(s)) > 0
    /\ \A i \in 1..Len(Chars(s)) : \E d \in DigitValue : d[1] = Chars(s)[i]

RECURSIVE DigitsToInt(_)
DigitsToInt(cs) ==
    IF cs = <<>> THEN 0
    ELSE 10 * DigitsToInt(SubSeq(cs, 1, Len(cs) - 1))
         + (CHOOSE d \in DigitValue : d[1] = cs[Len(cs)])[2]

\* int(arg) for a string of digits
ToInt(s) == DigitsToInt(Chars(s))

DefaultQuality == 85

\* sys.argv[3:]: every way to give at most one quality and the flag, a quality
\* after a quality, and an argument that is neither.
OptionLists ==
    { <<>>, <<"--overwrite">>, <<"90">>, <<"0">>, <<"101">>, <<"-5">>,
      <<"90", "--overwrite">>, <<"--overwrite", "90">>,
      <<"0", "--overwrite">>, <<"--overwrite", "0">>,
      <<"101", "--overwrite">>, <<"--overwrite", "101">>,
      <<"90", "0">>, <<"101", "90">>, <<"-5", "--overwrite">> }

\* sys.argv[1:]
CommandLines ==
    { <<>> } \cup { <<i>> : i \in InputSpellings } \cup
    { <<i, o>> \o opts : i \in InputSpellings, o \in OutputSpellings,
                         opts \in OptionLists }
\* ----------------------------------------------------------------- state
VARIABLES
    argv,             \* sys.argv[1:]
    dirs,             \* the locations that exist as directories
    fs,               \* fs[location][name]: the content of each file
    fs0,              \* fs when the current process started
    run,              \* 1 in the first process, 2 in the second
    pc,               \* where the current process is
    exitCode,         \* -1 while running, then the exit status
    msg,              \* the error or usage message printed, "" if none
    input_folder, output_folder, quality, overwrite,
    argi,             \* position of the for loop over sys.argv[3:]
    image_files,      \* image_files[name]: how often the name is in the list
    todo,             \* the part of image_files the loop has not reached
    converted_count, skipped_count, error_count,
    log,              \* log[name]: the outcomes printed for the name, in order
    prevLog,          \* log of the previous process
    summary           \* <<converted, skipped, errors>> once printed, else <<>>

vars ==
    << argv, dirs, fs, fs0, run, pc, exitCode, msg,
       input_folder, output_folder, quality, overwrite, argi, image_files, todo,
       converted_count, skipped_count, error_count, log, prevLog, summary >>

counters == << converted_count, skipped_count, error_count >>
request == << input_folder, output_folder, quality, overwrite >>

NoFiles == [n \in AllNames |-> 0]
EmptyDir == [n \in AllNames |-> Absent]
EmptyLog == [n \in AllNames |-> <<>>]
BagSize(b) == LET RECURSIVE Sum(_)
                  Sum(S) == IF S = {} THEN 0
                            ELSE LET n == CHOOSE n \in S : TRUE
                                 IN b[n] + Sum(S \ {n})
              IN Sum(AllNames)

\* Path.exists() / Path.is_dir() of a folder argument
PathExists(sp) == sp = "file" \/ (sp \in {"in", "alias", "new"} /\ Loc(sp) \in dirs)
IsDir(sp) == sp \in {"in", "alias", "new"} /\ Loc(sp) \in dirs

\* Path.exists() of a file of a folder
FileExists(sp, n) ==
    /\ IsDir(sp)
    /\ fs[Loc(sp)][n] # Absent

\* The directories that exist before the first run.
InitDirs == {"L1"}

Init ==
    /\ argv \in CommandLines
    /\ dirs = InitDirs
    /\ \E present \in SUBSET InitNames :
          /\ Cardinality(present) <= MaxFiles
          /\ fs = [l \in Locations |->
                     IF l = "L1"
                     THEN [n \in AllNames |-> IF n \in present THEN Orig ELSE Absent]
                     ELSE EmptyDir]
    /\ fs0 = fs
    /\ run = 1
    /\ pc = "main"
    /\ exitCode = -1
    /\ msg = ""
    /\ input_folder = ""
    /\ output_folder = ""
    /\ quality = DefaultQuality
    /\ overwrite = FALSE
    /\ argi = 3
    /\ image_files = NoFiles
    /\ todo = NoFiles
    /\ converted_count = 0
    /\ skipped_count = 0
    /\ error_count = 0
    /\ log = EmptyLog
    /\ prevLog = EmptyLog
    /\ summary = <<>>

\* sys.exit(code), or main() returning (code 0)
Exit(code, message) ==
    /\ pc' = "exit"
    /\ exitCode' = code
    /\ msg' = message

\* ------------------------------------------------------------------ main
\* len(sys.argv) < 3: usage, exit 1
Usage ==
    /\ pc = "main"
    /\ Len(argv) < 2
    /\ Exit(1, "usage")
    /\ UNCHANGED << argv, dirs, fs, fs0, run, request, argi, image_files, todo,
                    counters, log, prevLog, summary >>

Start ==
    /\ pc = "main"
    /\ Len(argv) >= 2
    /\ input_folder' = argv[1]
    /\ output_folder' = argv[2]
    /\ quality' = DefaultQuality
    /\ overwrite' = FALSE
    /\ argi' = 3
    /\ pc' = "parse"
    /\ UNCHANGED << argv, dirs, fs, fs0, run, exitCode, msg, image_files, todo,
                    counters, log, prevLog, summary >>

\* The range check with a lower bound that is off by one.
QualityOutOfRangeFromZero(q) == q < 0 \/ q > 100

\* quality < 1 or quality > 100
QualityOutOfRange(q) == q < 1 \/ q > 100

\* one iteration of the loop over sys.argv[3:]
ParseArg ==
    /\ pc = "parse"
    /\ argi <= Len(argv)
    /\ LET arg == argv[argi] IN
         IF arg = "--overwrite"
         THEN /\ overwrite' = TRUE
              /\ argi' = argi + 1
              /\ UNCHANGED << quality, pc, exitCode, msg >>
         ELSE IF IsDigit(arg)
         THEN /\ quality' = ToInt(arg)
              /\ IF QualityOutOfRange(ToInt(arg))
                 THEN Exit(1, "quality") /\ UNCHANGED argi
                 ELSE argi' = argi + 1 /\ UNCHANGED << pc, exitCode, msg >>
              /\ UNCHANGED overwrite
         ELSE /\ argi' = argi + 1
              /\ UNCHANGED << quality, overwrite, pc, exitCode, msg >>
    /\ UNCHANGED << argv, dirs, fs, fs0, run, input_folder, output_folder,
                    image_files, todo, counters, log, prevLog, summary >>

\* the loop is over: convert_to_webp(input_folder, output_folder, quality, overwrite)
CallConvert ==
    /\ pc = "parse"
    /\ argi > Len(argv)
    /\ pc' = "validate"
    /\ UNCHANGED << argv, dirs, fs, fs0, run, exitCode, msg, request, argi,
                    image_files, todo, counters, log, prevLog, summary >>
\* ------------------------------------------------------- convert_to_webp
\* The checks without the is_dir() one.
InputInvalidExistsOnly == ~PathExists(input_folder)

\* not input_path.exists(), or not input_path.is_dir()
InputInvalid == ~PathExists(input_folder) \/ ~IsDir(input_folder)

\* the input folder fails the checks: an error line, return; main() returns
ValidateFail ==
    /\ pc = "validate"
    /\ InputInvalid
    /\ Exit(0, IF ~PathExists(input_folder) THEN "noinput" ELSE "notdir")
    /\ UNCHANGED << argv, dirs, fs, fs0, run, request, argi, image_files, todo,
                    counters, log, prevLog, summary >>

\* output_path.mkdir(parents=True, exist_ok=True)
Mkdir ==
    /\ pc = "validate"
    /\ ~InputInvalid
    /\ dirs' = dirs \cup {Loc(output_folder)}
    /\ pc' = "glob"
    /\ UNCHANGED << argv, fs, fs0, run, exitCode, msg, request, argi, image_files,
                    todo, counters, log, prevLog, summary >>

\* input_path.glob('*' + pattern) matches the name
GlobMatches(pattern, n) == n[2] = pattern

\* How often the two globs per supported format return the name.
GlobCount(n) ==
    IF ~IsDir(input_folder) \/ fs[Loc(input_folder)][n] = Absent THEN 0
    ELSE Cardinality({ ext \in SUPPORTED_FORMATS : GlobMatches(ext, n) })
         + Cardinality({ ext \in SUPPORTED_FORMATS : GlobMatches(Upper(ext), n) })

\* the list of candidates; none: a message and return
Glob ==
    /\ pc = "glob"
    /\ image_files' = [n \in AllNames |-> GlobCount(n)]
    /\ todo' = image_files'
    /\ IF image_files' = NoFiles
       THEN Exit(0, "nofiles") /\ UNCHANGED counters
       ELSE /\ converted_count' = 0
            /\ skipped_count' = 0
            /\ error_count' = 0
            /\ pc' = "loop"
            /\ UNCHANGED << exitCode, msg >>
    /\ UNCHANGED << argv, dirs, fs, fs0, run, request, argi, log, prevLog, summary >>

\* image_file == output_file
IsSelf(f) == <<input_folder, f>> = <<output_folder, WebpName(f)>>

\* The decision with the exists check ahead of the self check.
ClassifyExistsFirst(f) ==
    IF FileExists(output_folder, WebpName(f)) /\ ~overwrite THEN "SkippedExists"
    ELSE IF IsSelf(f) THEN "SkippedAlreadyTarget"
    ELSE "Attempt"

\* The decision with the exists check not looking at the overwrite flag.
ClassifyIgnoresOverwrite(f) ==
    IF IsSelf(f) THEN "SkippedAlreadyTarget"
    ELSE IF FileExists(output_folder, WebpName(f)) THEN "SkippedExists"
    ELSE "Attempt"

\* The decision without the exists check.
ClassifyNeverSkipsExisting(f) ==
    IF IsSelf(f) THEN "SkippedAlreadyTarget"
    ELSE "Attempt"

\* The decision with the exists check made in the input folder.
ClassifyChecksInputFolder(f) ==
    IF IsSelf(f) THEN "SkippedAlreadyTarget"
    ELSE IF FileExists(input_folder, WebpName(f)) /\ ~overwrite THEN "SkippedExists"
    ELSE "Attempt"

\* The decision for one candidate, in the order the loop body takes it.
Classify(f) ==
    IF IsSelf(f) THEN "SkippedAlreadyTarget"
    ELSE IF FileExists(output_folder, WebpName(f)) /\ ~overwrite THEN "SkippedExists"
    ELSE "Attempt"

\* The counters with an error left uncounted.
TallyDropsError(c, outcome) ==
    CASE outcome = "Converted" -> << c[1] + 1, c[2], c[3] >>
      [] outcome = "Error" -> << c[1], c[2], c[3] >>
      [] OTHER -> << c[1], c[2] + 1, c[3] >>

\* The counters after one outcome.
Tally(c, outcome) ==
    CASE outcome = "Converted" -> << c[1] + 1, c[2], c[3] >>
      [] outcome = "Error" -> << c[1], c[2], c[3] + 1 >>
      [] OTHER -> << c[1], c[2] + 1, c[3] >>

\* The end of one iteration: the line printed, the counter, the next candidate.
Record(f, outcome) ==
    /\ todo' = [todo EXCEPT ![f] = @ - 1]
    /\ log' = [log EXCEPT ![f] = Append(@, outcome)]
    /\ converted_count' = Tally(counters, outcome)[1]
    /\ skipped_count' = Tally(counters, outcome)[2]
    /\ error_count' = Tally(counters, outcome)[3]

SkipSelf ==
    /\ pc = "loop"
    /\ \E f \in AllNames :
          /\ todo[f] > 0
          /\ Classify(f) = "SkippedAlreadyTarget"
          /\ Record(f, "SkippedAlreadyTarget")
    /\ UNCHANGED << argv, dirs, fs, fs0, run, pc, exitCode, msg, request, argi,
                    image_files, prevLog, summary >>

SkipExists ==
    /\ pc = "loop"
    /\ \E f \in AllNames :
          /\ todo[f] > 0
          /\ Classify(f) = "SkippedExists"
          /\ Record(f, "SkippedExists")
    /\ UNCHANGED << argv, dirs, fs, fs0, run, pc, exitCode, msg, request, argi,
                    image_files, prevLog, summary >>

\* Image.open and img.save succeed
ConvertOk ==
    /\ pc = "loop"
    /\ \E f \in AllNames :
          /\ todo[f] > 0
          /\ Classify(f) = "Attempt"
          /\ fs' = [fs EXCEPT ![Loc(output_folder)][WebpName(f)] = Encoded(f, quality)]
          /\ Record(f, "Converted")
    /\ UNCHANGED << argv, dirs, fs0, run, pc, exitCode, msg, request, argi,
                    image_files, prevLog, summary >>

\* The conversion without the try/except: the exception ends the process.
ConvertFailUncaught ==
    /\ pc = "loop"
    /\ \E f \in AllNames :
          /\ todo[f] > 0
          /\ Classify(f) = "Attempt"
          /\ \/ UNCHANGED fs
             \/ fs' = [fs EXCEPT ![Loc(output_folder)][WebpName(f)] = Partial]
    /\ Exit(1, "traceback")
    /\ UNCHANGED << argv, dirs, fs0, run, request, argi, image_files, todo,
                    counters, log, prevLog, summary >>

\* Image.open or img.save raises: the exception is caught, the loop goes on.
\* Image.open failing leaves the output as it was; img.save failing may have
\* created or truncated it.
ConvertFail ==
    /\ pc = "loop"
    /\ \E f \in AllNames :
          /\ todo[f] > 0
          /\ Classify(f) = "Attempt"
          /\ \/ UNCHANGED fs
             \/ fs' = [fs EXCEPT ![Loc(output_folder)][WebpName(f)] = Partial]
          /\ Record(f, "Error")
    /\ UNCHANGED << argv, dirs, fs0, run, pc, exitCode, msg, request, argi,
                    image_files, prevLog, summary >>

\* after the loop: the totals are printed, convert_to_webp and main() return
Summary ==
    /\ pc = "loop"
    /\ todo = NoFiles
    /\ summary' = counters
    /\ Exit(0, "")
    /\ UNCHANGED << argv, dirs, fs, fs0, run, request, argi, image_files, todo,
                    counters, log, prevLog >>

\* The program is started again on the same command line and folders.
Rerun ==
    /\ pc = "exit"
    /\ run = 1
    /\ run' = run + 1
    /\ fs0' = fs
    /\ prevLog' = log
    /\ pc' = "main"
    /\ exitCode' = -1
    /\ msg' = ""
    /\ input_folder' = ""
    /\ output_folder' = ""
    /\ quality' = DefaultQuality
    /\ overwrite' = FALSE
    /\ argi' = 3
    /\ image_files' = NoFiles
    /\ todo' = NoFiles
    /\ converted_count' = 0
    /\ skipped_count' = 0
    /\ error_count' = 0
    /\ log' = EmptyLog
    /\ summary' = <<>>
    /\ UNCHANGED << argv, dirs, fs >>

Next ==
    \/ Usage
    \/ Start
    \/ ParseArg
    \/ CallConvert
    \/ ValidateFail
    \/ Mkdir
    \/ Glob
    \/ SkipSelf
    \/ SkipExists
    \/ ConvertOk
    \/ ConvertFail
    \/ Summary
    \/ Rerun

Spec == Init /\ [][Next]_vars
\* ================================================================ claims
\* The extension in lower case, for a comparison that ignores case.
Lower(e) == (CHOOSE t \in CaseOf : t[1] = e)[2]

\* The outcomes printed so far for all candidates.
LogSize == BagSize([n \in AllNames |-> Len(log[n])])

\* The outcome o is among those printed for f in lg.
Has(lg, f, o) == \E i \in 1..Len(lg[f]) : lg[f][i] = o

\* How many candidates got the outcome o.
CountOf(o) ==
    BagSize([n \in AllNames |-> Cardinality({ i \in 1..Len(log[n]) : log[n][i] = o })])

\* The folder given as input does not exist or is not a directory.
BadInputFolder == Len(argv) >= 2 /\ (~PathExists(argv[1]) \/ ~IsDir(argv[1]))

\* A string of digits among the optional arguments is outside 1..100.
BadQualityGiven ==
    /\ Len(argv) >= 2
    /\ \E i \in 3..Len(argv) :
          IsDigit(argv[i]) /\ (ToInt(argv[i]) < 1 \/ ToInt(argv[i]) > 100)

\* The output path computed for f is f's own path.
OwnOutput(f) == input_folder = output_folder /\ f[2] = "webp"

\* The loop has just printed an outcome for f.
JustProcessed(f) == pc = "loop" /\ log'[f] # log[f]

\* C1: converted + skipped + errors is the number of candidates processed so
\* far after every iteration, and the number of candidates found when the
\* loop is over; each iteration adds one to exactly one counter.
C1_CountsSumToCandidates ==
    /\ converted_count + skipped_count + error_count
          = BagSize(image_files) - BagSize(todo)
    /\ converted_count + skipped_count + error_count = LogSize
    /\ converted_count = CountOf("Converted")
    /\ error_count = CountOf("Error")
    /\ summary # <<>> =>
          /\ summary = counters
          /\ summary[1] + summary[2] + summary[3] = BagSize(image_files)

C1_Witness ==
    /\ summary # <<>>
    /\ BagSize(image_files) = 3
    /\ converted_count = 1 /\ skipped_count = 1 /\ error_count = 1

\* C2 as stated: after a second run with overwrite=false every outcome of the
\* run is SkippedExists and no file was written.
C2_SecondRunAllSkippedExists ==
    (run = 2 /\ pc = "exit" /\ ~overwrite) =>
        /\ \A f \in AllNames : \A i \in 1..Len(log[f]) : log[f][i] = "SkippedExists"
        /\ fs = fs0

\* C2 amended: in a second run with overwrite=false a candidate that was
\* Converted or SkippedExists in the first run is SkippedExists, one that was
\* SkippedAlreadyTarget is SkippedAlreadyTarget again, nothing is Converted
\* but a candidate whose first outcome was Error, and a file is written only
\* at the output path of a candidate whose first outcome was Error.
C2_SecondRunSkipsWhatWasDone ==
    (run = 2 /\ ~overwrite) =>
        /\ \A f \in AllNames : \A i \in 1..Len(log[f]) :
              /\ (Has(prevLog, f, "Converted") \/ Has(prevLog, f, "SkippedExists"))
                    => log[f][i] = "SkippedExists"
              /\ Has(prevLog, f, "SkippedAlreadyTarget")
                    => log[f][i] = "SkippedAlreadyTarget"
              /\ log[f][i] = "Converted" => prevLog[f] = <<"Error">>
        /\ \A l \in Locations : \A n \in AllNames :
              fs[l][n] # fs0[l][n] =>
                  \E f \in AllNames : WebpName(f) = n /\ prevLog[f] = <<"Error">>
        /\ summary # <<>> => \A f \in AllNames : Len(log[f]) = image_files[f]

C2_Witness ==
    /\ run = 2 /\ ~overwrite /\ summary # <<>>
    /\ \E f, g, h \in AllNames :
          /\ prevLog[f] = <<"Converted">> /\ log[f] = <<"SkippedExists">>
          /\ prevLog[g] = <<"Error">> /\ log[g] = <<"Converted">>
          /\ prevLog[h] = <<"SkippedExists">> /\ log[h] = <<"SkippedExists">>

\* C3 as stated: with two or more arguments and an input folder that is
\* missing or not a directory, the process exits with a non-zero status.
C3_BadInputExitsNonZero == (pc = "exit" /\ BadInputFolder) => exitCode # 0

\* C4: with an input folder that is missing or not a directory nothing on
\* the filesystem changes: no directory is created, no candidate is listed
\* or processed, no file is written.
C4_BadInputChangesNothing ==
    BadInputFolder =>
        /\ dirs = InitDirs
        /\ fs = fs0
        /\ image_files = NoFiles
        /\ log = EmptyLog
        /\ summary = <<>>
        /\ pc \notin {"glob", "loop"}

C4_Witness ==
    /\ pc = "exit" /\ msg \in {"noinput", "notdir"}
    /\ output_folder = "new" /\ overwrite

\* C5: a quality outside 1..100 on the command line ends the process with
\* status 1 before convert_to_webp is called: no directory is created, no
\* file is listed, processed or written, wherever --overwrite stands.
C5_BadQualityStopsBeforeConvert ==
    BadQualityGiven =>
        /\ pc \in {"main", "parse", "exit"}
        /\ pc = "exit" => (exitCode = 1 /\ msg = "quality")
        /\ dirs = InitDirs
        /\ fs = fs0
        /\ image_files = NoFiles
        /\ log = EmptyLog
        /\ summary = <<>>

C5_Witness ==
    /\ pc = "exit" /\ exitCode = 1 /\ msg = "quality"
    /\ overwrite /\ quality = 0 /\ argv[1] = "in"

\* C6: a candidate whose output path is its own path is SkippedAlreadyTarget,
\* with the flag and without: the iteration adds one to skipped_count only
\* and leaves every file as it is.
C6_SelfSkip ==
    [][\A f \in AllNames :
          (JustProcessed(f) /\ OwnOutput(f)) =>
              /\ log'[f] = Append(log[f], "SkippedAlreadyTarget")
              /\ skipped_count' = skipped_count + 1
              /\ converted_count' = converted_count
              /\ error_count' = error_count
              /\ fs' = fs]_vars

C6_Witness ==
    /\ run = 1 /\ ~overwrite /\ input_folder = "in" /\ output_folder = "in"
    /\ log[<<"a", "webp">>] = <<"SkippedAlreadyTarget">>
    /\ fs[Loc(output_folder)][<<"a", "webp">>] = Orig

\* C7: an exception while one candidate is converted adds one to error_count
\* and does not end the run: every candidate gets its outcome and the totals
\* are printed, however many candidates fail.
C7_ErrorsAreIsolated ==
    /\ (\E f \in AllNames : Has(log, f, "Error")) => pc \in {"loop", "exit"}
    /\ error_count = CountOf("Error")
    /\ (pc = "exit" /\ image_files # NoFiles) =>
          /\ exitCode = 0
          /\ summary = counters
          /\ todo = NoFiles
          /\ \A f \in AllNames : Len(log[f]) = image_files[f]

C7_Witness ==
    /\ pc = "exit" /\ summary # <<>>
    /\ error_count = 2 /\ converted_count = 1

\* C8 as stated: the candidates are the entries of the input folder whose
\* extension is, compared case-insensitively, a supported one.
C8_CandidatesIgnoreCase ==
    (pc = "loop" \/ (pc = "exit" /\ msg = "nofiles")) =>
        \A n \in AllNames :
            fs0[Loc(input_folder)][n] # Absent =>
                (image_files[n] > 0 <=> Lower(n[2]) \in SUPPORTED_FORMATS)

\* C9: with overwrite=true a candidate whose output exists and is not its own
\* path is not skipped: the conversion is attempted, and when it succeeds
\* the output holds the new encoding and the outcome is Converted.
C9_OverwriteRewrites ==
    [][\A f \in AllNames :
          (/\ JustProcessed(f)
           /\ overwrite
           /\ fs[Loc(output_folder)][WebpName(f)] # Absent
           /\ ~OwnOutput(f)) =>
              \/ /\ log'[f] = Append(log[f], "Converted")
                 /\ fs'[Loc(output_folder)][WebpName(f)] = Encoded(f, quality)
                 /\ converted_count' = converted_count + 1
                 /\ error_count' = error_count
              \/ /\ log'[f] = Append(log[f], "Error")
                 /\ error_count' = error_count + 1]_vars

C9_Witness ==
    /\ run = 2 /\ overwrite /\ output_folder = "new"
    /\ \E f \in AllNames :
          /\ prevLog[f] = <<"Converted">>
          /\ fs0[Loc(output_folder)][WebpName(f)] # Absent
          /\ log[f] = <<"Converted">>
          /\ fs[Loc(output_folder)][WebpName(f)] = Encoded(f, quality)

\* C10: with overwrite=false no iteration changes a file that exists when
\* the candidate is examined, every file present when the run starts is
\* unchanged afterwards, and no output path is converted to twice in a run.
C10_NoOverwriteKeepsExisting ==
    [][(pc = "loop" /\ ~overwrite) =>
          /\ \A l \in Locations : \A n \in AllNames :
                fs[l][n] # Absent => fs'[l][n] = fs[l][n]
          /\ \A l \in Locations : \A n \in AllNames :
                fs0[l][n] # Absent => fs'[l][n] = fs0[l][n]
          /\ \A f, g \in AllNames :
                (Has(log', f, "Converted") /\ Has(log', g, "Converted")
                    /\ WebpName(f) = WebpName(g)) => f = g]_vars

C10_Witness ==
    /\ summary # <<>> /\ ~overwrite /\ run = 1
    /\ log[<<"a", "png">>] = <<"Converted">>
    /\ log[<<"a", "jpg">>] = <<"SkippedExists">>
    /\ log[<<"b", "JPG">>] = <<"Converted">>
====
